---- MODULE Spec2Model ----
(***************************************************************************)
(* Model of the function dispatch engine of src/smart_caller.py:           *)
(* FunctionRegistry (register, filter_functions, log_call),                *)
(* ParameterBuilder (build_parameters) and SmartCaller (prepare_for_llm,   *)
(* get_function_descriptions with its lru_cache, execute_function_call,    *)
(* the result cache), of execute_function_call run by several threads, of  *)
(* OpenAIAdapter.chat_completion_with_functions of src/llm_adapters.py and *)
(* of StateTracker (update, merge, clear, add_to_history, to_json,         *)
(* from_json) of src/state_tracker.py.                                     *)
(*                                                                         *)
(* Time is the value time.time() returns, in whole seconds.  Python dicts  *)
(* keep insertion order, so a dict is modelled by a function plus, where   *)
(* the order is observable, the sequence of its keys.                      *)
(***************************************************************************)
EXTENDS Integers, Sequences, FiniteSets, TLC

(***************************************************************************)
(* Bounds of the model.                                                    *)
(***************************************************************************)
\* time.time() at the moment the process starts (a large positive number).
StartTime == 3
\* The clock is followed up to this value.
MaxTime == 5
\* The longest run of an executed callable, in seconds.
MaxExec == 1
\* Calls recorded per callable before the model stops dispatching it.
MaxCalls == 2

(***************************************************************************)
(* Inputs.                                                                 *)
(***************************************************************************)
\* The host's callables, registered under their own __name__.
Names == {"add", "ping"}
\* A name no callable is registered under.
UnknownName == "nope"
\* priority= values passed to register (the default is 5).
DefaultPriority == 5
Priorities == {1, DefaultPriority}
\* cooldown= values passed to register: the default 0.0, a short one, and one
\* larger than any value the clock takes (such as float("inf")).
DefaultCooldown == 0
Cooldowns == {DefaultCooldown, 2, 9}
ContextKeys == {"admin"}
\* A context is a dict; only the presence of its keys is ever read.
Contexts == SUBSET ContextKeys

(***************************************************************************)
(* Values: JSON / Python values of call arguments and results.             *)
(***************************************************************************)
IntV(n) == [t |-> "int", i |-> n, s |-> ""]
StrV(x) == [t |-> "str", i |-> 0, s |-> x]
NoneV == [t |-> "none", i |-> 0, s |-> ""]
ListV(xs) == [t |-> "list", i |-> 0, s |-> "", items |-> xs]
RawValues == {IntV(3), StrV("3"), StrV("x")}

Range(f) == {f[k] : k \in DOMAIN f}

VARIABLES
    functions,      \* FunctionRegistry._functions: name -> callable
    schemas,        \* FunctionRegistry._schemas: name -> FunctionSchema
    order,          \* the keys of _schemas in insertion order
    last_called,    \* FunctionRegistry._last_called: name -> time
    call_count,     \* FunctionRegistry._call_count: name -> int
    results_cache,  \* SmartCaller._results_cache: cache key -> response
    descriptions,   \* the lru_cache of get_function_descriptions
    now,            \* the value of time.time()
    ret,            \* what the prepare_for_llm or execute_function_call that
                    \* just ran returned (NoRet after any other step)
    threads,        \* the execute_function_call each thread of the host is in
    tracker         \* the host's StateTracker (NoTracker before it is made)

vars == <<functions, schemas, order, last_called, call_count, results_cache,
          descriptions, now, ret, threads, tracker>>

(***************************************************************************)
(* Schema synthesis (register, _get_type_schema).                          *)
(***************************************************************************)
\* The formal parameters of the host's callables, as inspect.signature
\* gives them: def add(a: int, b: int), def ping(),
\* def greet(name: str, title: str = "Dr") and def total(numbers: List[int]).
Signature(f) ==
    CASE f = "add" -> << [name |-> "a", annotation |-> "int", has_default |-> FALSE],
                         [name |-> "b", annotation |-> "int", has_default |-> FALSE] >>
      [] f = "greet" ->
            << [name |-> "name", annotation |-> "str", has_default |-> FALSE],
               [name |-> "title", annotation |-> "str", has_default |-> TRUE] >>
      [] f = "total" ->
            << [name |-> "numbers", annotation |-> "List[int]", has_default |-> FALSE] >>
      [] OTHER -> << >>

get_type_schema(annotation) ==
    CASE annotation = "str" -> [type |-> "string", items |-> ""]
      [] annotation = "int" -> [type |-> "integer", items |-> ""]
      [] annotation = "float" -> [type |-> "number", items |-> ""]
      [] annotation = "bool" -> [type |-> "boolean", items |-> ""]
      [] annotation = "List[str]" -> [type |-> "array", items |-> "string"]
      [] annotation = "List[int]" -> [type |-> "array", items |-> "integer"]
      [] annotation = "Dict[str, Any]" -> [type |-> "object", items |-> ""]
      [] OTHER -> [type |-> "string", items |-> ""]

\* The "properties" of the schema: one entry per formal parameter, in order.
SchemaProperties(f) ==
    [k \in DOMAIN Signature(f) |->
        LET p == Signature(f)[k]
            ts == IF p.annotation = "" THEN [type |-> "string", items |-> ""]
                  ELSE get_type_schema(p.annotation)
        IN [name |-> p.name, type |-> ts.type, items |-> ts.items]]

RequiredParams(f) ==
    {Signature(f)[k].name : k \in {j \in DOMAIN Signature(f) : ~Signature(f)[j].has_default}}

\* FunctionSchema(...) as register builds it: context_requirements keeps its
\* default, the empty list.
NewSchema(f, priority, cooldown) ==
    [name |-> f,
     parameters |-> SchemaProperties(f),
     required_params |-> RequiredParams(f),
     context_requirements |-> {},
     priority |-> priority,
     cooldown |-> cooldown]

\* d[k] = v on a Python dict.
Put(d, k, v) == [x \in DOMAIN d \cup {k} |-> IF x = k THEN v ELSE d[x]]

\* The threads of the host that call execute_function_call on the shared
\* SmartCaller.
Threads == {"t1", "t2"}
\* A thread outside execute_function_call.  Inside it, pc is the line the
\* thread has reached, name the callable it dispatches, stamp the time it
\* wrote to _last_called, count the value it read from _call_count and
\* start_time the local of line 280; logged counts the log_call calls the
\* thread has completed.
Idle == [pc |-> "idle", name |-> "", stamp |-> 0, count |-> 0, start_time |-> 0,
         logged |-> 0]

\* The fields of a StateTracker; exists is FALSE while none has been made.
NoTracker ==
    [exists |-> FALSE, session_id |-> NoneV, ttl |-> 0, created_at |-> 0,
     last_updated |-> 0, state |-> << >>, history |-> << >>]

\* ret when the step just taken returned nothing that is looked at.
NoRet ==
    [op |-> "", name |-> "", ctx |-> {}, success |-> FALSE, error |-> "",
     result |-> NoneV, execution_time |-> 0, executed |-> FALSE,
     descs |-> << >>, eligible |-> << >>,
     keys |-> {}, args |-> << >>, value |-> << >>, decode_failed |-> FALSE,
     attempts |-> 0]

(***************************************************************************)
(* FunctionRegistry.filter_functions and log_call.                         *)
(***************************************************************************)
context_met(name, context) == schemas[name].context_requirements \subseteq context

LastCallTime(name) == IF name \in DOMAIN last_called THEN last_called[name] ELSE 0

\* Mutant of cooldown_passed: > where the code has >=.
cooldown_passed_strict(name, current_time) ==
    (current_time - LastCallTime(name)) > schemas[name].cooldown

cooldown_passed(name, current_time) ==
    (current_time - LastCallTime(name)) >= schemas[name].cooldown

\* Mutant of SortByPriority: the eligible names are returned unsorted.
Unsorted(names) == names

\* sorted(..., key=priority, reverse=True): a stable sort, descending.
RECURSIVE SortByPriority(_)
SortByPriority(names) ==
    IF names = << >> THEN << >>
    ELSE LET n == Len(names)
             x == names[n]
             done == SortByPriority(SubSeq(names, 1, n - 1))
             before == SelectSeq(done, LAMBDA y: schemas[y].priority >= schemas[x].priority)
             after == SelectSeq(done, LAMBDA y: schemas[y].priority < schemas[x].priority)
         IN before \o <<x>> \o after

filter_functions(context, current_time) ==
    SortByPriority(SelectSeq(order,
        LAMBDA name: context_met(name, context) /\ cooldown_passed(name, current_time)))

LoggedLastCalled(name, current_time) == Put(last_called, name, current_time)

LoggedCallCount(name) ==
    Put(call_count, name, (IF name \in DOMAIN call_count THEN call_count[name] ELSE 0) + 1)

(***************************************************************************)
(* Operations of the registry.                                             *)
(***************************************************************************)
Init ==
    /\ functions = << >>
    /\ schemas = << >>
    /\ order = << >>
    /\ last_called = << >>
    /\ call_count = << >>
    /\ results_cache = << >>
    /\ descriptions = [filled |-> FALSE, value |-> << >>]
    /\ now = StartTime
    /\ ret = NoRet
    /\ threads = [t \in Threads |-> Idle]
    /\ tracker = NoTracker

\* @registry.register(priority=..., cooldown=...) on the callable f.
Register(f, priority, cooldown) ==
    /\ functions' = Put(functions, f, f)
    /\ schemas' = Put(schemas, f, NewSchema(f, priority, cooldown))
    /\ order' = IF f \in DOMAIN schemas THEN order ELSE Append(order, f)
    /\ call_count' = Put(call_count, f, 0)
    /\ ret' = NoRet
    /\ UNCHANGED <<tracker, threads, last_called, results_cache, descriptions, now>>

\* The host assigns context_requirements on the schema object get_schema
\* returns (register has no parameter for it).
SetContextRequirements(f, reqs) ==
    /\ f \in DOMAIN schemas
    /\ schemas[f].context_requirements # reqs
    /\ schemas' = [schemas EXCEPT ![f].context_requirements = reqs]
    /\ ret' = NoRet
    /\ UNCHANGED <<tracker, threads, functions, order, last_called, call_count, results_cache,
                   descriptions, now>>

\* registry.log_call(name) for a registered callable.
LogCall(name) ==
    /\ name \in DOMAIN functions
    /\ call_count[name] < MaxCalls
    /\ last_called' = LoggedLastCalled(name, now)
    /\ call_count' = LoggedCallCount(name)
    /\ ret' = NoRet
    /\ UNCHANGED <<tracker, threads, functions, schemas, order, results_cache, descriptions, now>>

\* A second passes.
Tick ==
    /\ now < MaxTime
    /\ now' = now + 1
    /\ ret' = NoRet
    /\ UNCHANGED <<tracker, threads, functions, schemas, order, last_called, call_count,
                   results_cache, descriptions>>

(***************************************************************************)
(* ParameterBuilder.build_parameters: the required-parameter loop, then a  *)
(* pydantic model with one field per schema property.                      *)
(***************************************************************************)
json_type_to_python(json_type) ==
    CASE json_type = "string" -> "str"
      [] json_type = "integer" -> "int"
      [] json_type = "number" -> "float"
      [] json_type = "boolean" -> "bool"
      [] json_type = "array" -> "list"
      [] json_type = "object" -> "dict"
      [] OTHER -> "str"

\* Decimal strings of one digit and the integers they parse to.
DecimalString == [k \in 0..9 |-> CASE k = 0 -> "0" [] k = 1 -> "1" [] k = 2 -> "2"
                                   [] k = 3 -> "3" [] k = 4 -> "4" [] k = 5 -> "5"
                                   [] k = 6 -> "6" [] k = 7 -> "7" [] k = 8 -> "8"
                                   [] OTHER -> "9"]
IsNumeric(x) == \E k \in DOMAIN DecimalString : DecimalString[k] = x
ParseInt(x) == CHOOSE k \in DOMAIN DecimalString : DecimalString[k] = x

Fail == [ok |-> FALSE, value |-> NoneV]
Ok(v) == [ok |-> TRUE, value |-> v]

\* pydantic's validation of one value against a field of the given type.
Coerce(field_type, v) ==
    CASE field_type = "str" -> IF v.t = "str" THEN Ok(v) ELSE Fail
      [] field_type = "int" ->
            IF v.t = "int" THEN Ok(v)
            ELSE IF v.t = "str" /\ IsNumeric(v.s) THEN Ok(IntV(ParseInt(v.s)))
            ELSE Fail
      [] field_type = "list" -> IF v.t = "list" THEN Ok(v) ELSE Fail
      [] OTHER -> Fail

ErrMissing == "Missing required parameter"
ErrInvalid == "Invalid parameters"

\* The names of the properties of a schema.
PropertyNames(schema) == {schema.parameters[k].name : k \in DOMAIN schema.parameters}
PropertyOf(schema, pname) ==
    schema.parameters[CHOOSE k \in DOMAIN schema.parameters : schema.parameters[k].name = pname]

\* model(**params_data): each field validated.  A supplied value is coerced
\* to the field's type; an absent field takes its default None when it has
\* one and is an error when it is required; keys that are no field are
\* ignored.
ValidateFields(schema, params_data) ==
    [pname \in PropertyNames(schema) |->
        IF pname \in DOMAIN params_data
        THEN Coerce(json_type_to_python(PropertyOf(schema, pname).type), params_data[pname])
        ELSE IF pname \in schema.required_params THEN Fail ELSE Ok(NoneV)]

\* build_parameters from line 155 on, schema being what get_schema returned.
build_from_schema(schema, params_data) ==
    LET fields == ValidateFields(schema, params_data)
    IN IF \E req \in schema.required_params : req \notin DOMAIN params_data
       THEN [ok |-> FALSE, error |-> ErrMissing, value |-> << >>]
       ELSE IF \E pname \in DOMAIN fields : ~fields[pname].ok
       THEN [ok |-> FALSE, error |-> ErrInvalid, value |-> << >>]
       \* validated.model_dump()
       ELSE [ok |-> TRUE, error |-> "",
             value |-> [pname \in DOMAIN fields |-> fields[pname].value]]

build_parameters(function_name, params_data) ==
    build_from_schema(schemas[function_name], params_data)

\* The argument mappings a call request may carry for a callable.
ArgumentsFor(f) ==
    LET pnames == {Signature(f)[k].name : k \in DOMAIN Signature(f)}
    IN UNION {[d -> RawValues] : d \in SUBSET pnames}

\* The callables whose parameters are validated directly, the values an
\* argument may have (None and lists among them) and the mappings a caller
\* of build_parameters may pass.
ValidatedNames == {"add", "greet", "total"}
ValidateValues ==
    RawValues \cup {NoneV} \cup
    {ListV(xs) : xs \in {<< >>, <<IntV(3)>>, <<StrV("3")>>, <<StrV("x")>>,
                         <<IntV(3), StrV("3")>>}}
ValidateArguments(f) ==
    LET pnames == {Signature(f)[k].name : k \in DOMAIN Signature(f)}
    IN UNION {[d -> ValidateValues] : d \in SUBSET pnames}

\* param_builder.build_parameters(function_name, params_data) called on a
\* registered callable.
Validate(function_name, params_data) ==
    /\ function_name \in DOMAIN schemas
    /\ LET built == build_parameters(function_name, params_data)
       IN ret' = [NoRet EXCEPT !.op = "validate", !.name = function_name,
                               !.args = params_data, !.success = built.ok,
                               !.error = built.error, !.value = built.value]
    /\ UNCHANGED <<tracker, threads, functions, schemas, order, last_called, call_count,
                   results_cache, descriptions, now>>

\* build_parameters called again on the mapping it has just returned.
Revalidate ==
    /\ ret.op \in {"validate", "revalidate"}
    /\ ret.success
    /\ LET built == build_parameters(ret.name, ret.value)
       IN ret' = [NoRet EXCEPT !.op = "revalidate", !.name = ret.name,
                               !.args = ret.value, !.success = built.ok,
                               !.error = built.error, !.value = built.value]
    /\ UNCHANGED <<tracker, threads, functions, schemas, order, last_called, call_count,
                   results_cache, descriptions, now>>

(***************************************************************************)
(* SmartCaller: prepare_for_llm and get_function_descriptions.             *)
(***************************************************************************)
\* The body of get_function_descriptions: one description per schema, in
\* the order of registry.get_all_schemas().
DescribeAll ==
    [k \in DOMAIN order |->
        [name |-> schemas[order[k]].name, parameters |-> schemas[order[k]].parameters]]

\* get_function_descriptions() through @lru_cache: the first call's list is
\* returned by every later call on the same SmartCaller.
get_function_descriptions ==
    IF descriptions.filled THEN descriptions.value ELSE DescribeAll

prepare_for_llm(context) ==
    LET available_functions == filter_functions(context, now)
    IN SelectSeq(get_function_descriptions,
                 LAMBDA desc: desc.name \in Range(available_functions))

Prepare(context) ==
    /\ descriptions' = [filled |-> TRUE, value |-> get_function_descriptions]
    /\ ret' = [NoRet EXCEPT !.op = "prepare", !.ctx = context,
                                       !.descs = prepare_for_llm(context),
                                       !.eligible = filter_functions(context, now)]
    /\ UNCHANGED <<tracker, threads, functions, schemas, order, last_called, call_count,
                   results_cache, now>>

(***************************************************************************)
(* SmartCaller.execute_function_call, one action per path through it.      *)
(***************************************************************************)
ErrUnknown == "Unknown function"
ErrNotAvailable == "Function is not available in current context"
\* str(e) of the exception a callable raises.
ErrRaised == "boom"

\* What the host's callables return.
CallBody(f, params) ==
    CASE f = "add" -> IntV(params["a"].i + params["b"].i)
      [] OTHER -> StrV("pong")

\* A dict whose order is looked at: the sequence of its (key, value) pairs
\* in insertion order.  model_dump() gives the fields in the order of the
\* schema's properties.
model_dump(schema, value) ==
    [k \in DOMAIN schema.parameters |->
        [key |-> schema.parameters[k].name, val |-> value[schema.parameters[k].name]]]

\* The parameter names of the model in the order Python compares strings.
KeyOrder == <<"a", "b", "name", "numbers", "title">>
KeyRank(key) == CHOOSE k \in DOMAIN KeyOrder : KeyOrder[k] = key

\* Mutant of json_dumps: json.dumps without sort_keys=True.
json_dumps_unsorted(items) == items

\* json.dumps(params, sort_keys=True): the text lists the pairs by ascending
\* key, and two texts are equal exactly when these lists are (the texts of
\* the model's values are distinct: 3, "3", "x", null, [...]).
RECURSIVE json_dumps(_)
json_dumps(items) ==
    IF items = << >> THEN << >>
    ELSE LET n == Len(items)
             x == items[n]
             done == json_dumps(SubSeq(items, 1, n - 1))
             before == SelectSeq(done, LAMBDA y: KeyRank(y.key) <= KeyRank(x.key))
             after == SelectSeq(done, LAMBDA y: KeyRank(y.key) > KeyRank(x.key))
         IN before \o <<x>> \o after

\* f"{function_name}:{json.dumps(validated_params, sort_keys=True)}"
cache_key(function_name, params) == <<function_name, json_dumps(params)>>

\* self._results_cache.get(cache_key) when nothing is cached: None.
NoResponse == [result |-> NoneV, execution_time |-> 0, success |-> FALSE]

get_cached_result(function_name, params) ==
    LET key == cache_key(function_name, params)
    IN IF key \in DOMAIN results_cache THEN results_cache[key] ELSE NoResponse

\* The keys of the dicts execute_function_call returns.
SuccessKeys == {"result", "execution_time", "success"}
FailureKeys == {"error", "success"}

\* Mutant of Failure: the error response also carries a result.
FailureWithResult(function_name, context, error, executed) ==
    [NoRet EXCEPT !.op = "dispatch", !.name = function_name, !.ctx = context,
                    !.error = error, !.executed = executed,
                    !.keys = FailureKeys \cup {"result"}]

Failure(function_name, context, error, executed) ==
    [NoRet EXCEPT !.op = "dispatch", !.name = function_name, !.ctx = context,
                    !.error = error, !.executed = executed, !.keys = FailureKeys]

\* call_data.get("arguments", "{}"): a dict, or a str holding JSON text.
DictArgs(m) == [kind |-> "dict", text |-> "", map |-> m]
TextArgs(x) == [kind |-> "str", text |-> x, map |-> << >>]

\* The texts a request may carry, and json.loads on them: the first two
\* decode to a dict, the others raise JSONDecodeError.
JsonTexts == {"{}", "{\"a\": \"3\", \"b\": 3}", "{\"a\": 3", "not json"}
json_loads(text) ==
    CASE text = "{}" -> [ok |-> TRUE, value |-> << >>]
      [] text = "{\"a\": \"3\", \"b\": 3}" ->
            [ok |-> TRUE, value |-> ("a" :> StrV("3")) @@ ("b" :> IntV(3))]
      [] OTHER -> [ok |-> FALSE, value |-> << >>]

\* The "arguments" a call request may carry for a callable, tabulated by
\* the name in the request.
RequestArgumentsOf ==
    [f \in Names \cup {UnknownName} |->
        {DictArgs(m) : m \in ArgumentsFor(f)} \cup {TextArgs(x) : x \in JsonTexts}]
RequestArguments(f) == RequestArgumentsOf[f]

\* lines 249-253: the arguments text did not decode.
decode_failed(arguments) ==
    arguments.kind = "str" /\ ~json_loads(arguments.text).ok

\* lines 246-253: function_args, decoded when it is a str.
function_args(arguments) ==
    IF arguments.kind = "str"
    THEN IF json_loads(arguments.text).ok THEN json_loads(arguments.text).value
         ELSE << >>
    ELSE arguments.map

\* Mutant of validated_params: text that does not decode is refused as
\* invalid parameters.
validated_params_strict(schema, arguments) ==
    LET built == build_from_schema(schema, function_args(arguments))
    IN IF decode_failed(arguments)
       THEN [ok |-> FALSE, error |-> ErrInvalid, value |-> << >>, decode_failed |-> TRUE]
       ELSE [ok |-> built.ok, error |-> built.error, value |-> built.value,
             decode_failed |-> FALSE]

\* lines 246-253 and 273: the arguments of the request, decoded and handed
\* to build_parameters, which validates them against the callable's schema.
validated_params(schema, arguments) ==
    LET built == build_from_schema(schema, function_args(arguments))
    IN [ok |-> built.ok, error |-> built.error, value |-> built.value,
        decode_failed |-> decode_failed(arguments)]

\* What lines 246-253 and 273 make of the arguments a request for the
\* callable may carry: the ValueError raised or the mapping returned.
\* They are tabulated by the schema the registry holds for the callable.
RegisteredSchemas ==
    {[NewSchema(f, priority, cooldown) EXCEPT !.context_requirements = reqs] :
        f \in Names, priority \in Priorities, cooldown \in Cooldowns,
        reqs \in SUBSET ContextKeys}
BuildOutcomesOf ==
    [schema \in RegisteredSchemas |->
        {validated_params(schema, arguments) :
            arguments \in RequestArguments(schema.name)}]
BuildOutcomes(function_name) == BuildOutcomesOf[schemas[function_name]]

\* Whether the arguments of a request decode, for the paths that never look
\* at them.
DecodeOutcomesOf ==
    [f \in Names \cup {UnknownName} |->
        {decode_failed(arguments) : arguments \in RequestArguments(f)}]
DecodeOutcomes(function_name) == DecodeOutcomesOf[function_name]

\* Mutant of IsAvailable: the context is checked, the cooldown is not.
IsAvailableInContext(function_name, context) ==
    context_met(function_name, context)

\* line 265: function_name not in available_functions
IsAvailable(function_name, context) ==
    function_name \in Range(filter_functions(context, now))

\* Mutant of DispatchUnknown: log_call runs before the callable is looked up.
DispatchUnknownLogged(function_name, context) ==
    /\ function_name \notin DOMAIN functions
    /\ function_name \in DOMAIN call_count => call_count[function_name] < MaxCalls
    /\ \E failed \in DecodeOutcomes(function_name) :
          ret' = [Failure(function_name, context, ErrUnknown, FALSE)
                      EXCEPT !.decode_failed = failed]
    /\ last_called' = LoggedLastCalled(function_name, now)
    /\ call_count' = LoggedCallCount(function_name)
    /\ UNCHANGED <<tracker, threads, functions, schemas, order, results_cache, descriptions, now>>

\* lines 246-261: no callable of that name.
DispatchUnknown(function_name, context) ==
    /\ function_name \notin DOMAIN functions
    /\ \E failed \in DecodeOutcomes(function_name) :
          ret' = [Failure(function_name, context, ErrUnknown, FALSE)
                      EXCEPT !.decode_failed = failed]
    /\ UNCHANGED <<tracker, threads, functions, schemas, order, last_called, call_count,
                   results_cache, descriptions, now>>

\* Mutant of DispatchNotAvailable: the refused call also drops the cached
\* responses of the callable.
DispatchNotAvailableEvicts(function_name, context) ==
    /\ function_name \in DOMAIN functions
    /\ ~IsAvailable(function_name, context)
    /\ \E failed \in DecodeOutcomes(function_name) :
          ret' = [Failure(function_name, context, ErrNotAvailable, FALSE)
                      EXCEPT !.decode_failed = failed]
    /\ results_cache' = [key \in {k \in DOMAIN results_cache : k[1] # function_name}
                            |-> results_cache[key]]
    /\ UNCHANGED <<tracker, threads, functions, schemas, order, last_called, call_count,
                   descriptions, now>>

\* lines 263-269: the callable is not available in this context now.
DispatchNotAvailable(function_name, context) ==
    /\ function_name \in DOMAIN functions
    /\ ~IsAvailable(function_name, context)
    /\ \E failed \in DecodeOutcomes(function_name) :
          ret' = [Failure(function_name, context, ErrNotAvailable, FALSE)
                      EXCEPT !.decode_failed = failed]
    /\ UNCHANGED <<tracker, threads, functions, schemas, order, last_called, call_count,
                   results_cache, descriptions, now>>

\* Mutant of DispatchInvalid: log_call runs before build_parameters.
DispatchInvalidLogged(function_name, context) ==
    /\ function_name \in DOMAIN functions
    /\ IsAvailable(function_name, context)
    /\ call_count[function_name] < MaxCalls
    /\ \E built \in BuildOutcomes(function_name) :
          /\ ~built.ok
          /\ ret' = [Failure(function_name, context, built.error, FALSE)
                         EXCEPT !.decode_failed = built.decode_failed]
    /\ last_called' = LoggedLastCalled(function_name, now)
    /\ call_count' = LoggedCallCount(function_name)
    /\ UNCHANGED <<tracker, threads, functions, schemas, order, results_cache, descriptions, now>>

\* lines 271-274, 296-301: build_parameters raises ValueError.
DispatchInvalid(function_name, context) ==
    /\ function_name \in DOMAIN functions
    /\ IsAvailable(function_name, context)
    /\ \E built \in BuildOutcomes(function_name) :
          /\ ~built.ok
          /\ ret' = [Failure(function_name, context, built.error, FALSE)
                         EXCEPT !.decode_failed = built.decode_failed]
    /\ UNCHANGED <<tracker, threads, functions, schemas, order, last_called, call_count,
                   results_cache, descriptions, now>>

\* Mutant of DispatchRaises: log_call runs after the callable has returned,
\* so a call that raises is not recorded.
DispatchRaisesUnlogged(function_name, context) ==
    /\ function_name \in DOMAIN functions
    /\ IsAvailable(function_name, context)
    /\ call_count[function_name] < MaxCalls
    /\ \E built \in BuildOutcomes(function_name), d \in 0..MaxExec :
          /\ built.ok
          /\ now + d <= MaxTime
          /\ now' = now + d
          /\ ret' = [Failure(function_name, context, ErrRaised, TRUE)
                         EXCEPT !.decode_failed = built.decode_failed,
                                !.value = built.value]
    /\ UNCHANGED <<tracker, threads, functions, schemas, order, last_called, call_count,
                   results_cache, descriptions>>

\* Mutant of DispatchRaises: no except clause around the call, so the
\* exception leaves execute_function_call.
DispatchRaisesPropagates(function_name, context) ==
    /\ function_name \in DOMAIN functions
    /\ IsAvailable(function_name, context)
    /\ call_count[function_name] < MaxCalls
    /\ \E built \in BuildOutcomes(function_name), d \in 0..MaxExec :
          /\ built.ok
          /\ now + d <= MaxTime
          /\ now' = now + d
          /\ ret' = [Failure(function_name, context, ErrRaised, TRUE)
                         EXCEPT !.op = "exception", !.keys = {},
                                !.decode_failed = built.decode_failed,
                                !.value = built.value]
    /\ last_called' = LoggedLastCalled(function_name, now)
    /\ call_count' = LoggedCallCount(function_name)
    /\ UNCHANGED <<tracker, threads, functions, schemas, order, results_cache, descriptions>>

\* lines 271-282, 296-301: the callable raises after running for d seconds.
DispatchRaises(function_name, context) ==
    /\ function_name \in DOMAIN functions
    /\ IsAvailable(function_name, context)
    /\ call_count[function_name] < MaxCalls
    /\ \E built \in BuildOutcomes(function_name), d \in 0..MaxExec :
          /\ built.ok
          /\ now + d <= MaxTime
          /\ now' = now + d
          /\ ret' = [Failure(function_name, context, ErrRaised, TRUE)
                         EXCEPT !.decode_failed = built.decode_failed,
                                !.value = built.value]
    /\ last_called' = LoggedLastCalled(function_name, now)
    /\ call_count' = LoggedCallCount(function_name)
    /\ UNCHANGED <<tracker, threads, functions, schemas, order, results_cache, descriptions>>

\* lines 271-294: the callable returns after running for d seconds.
DispatchSuccess(function_name, context) ==
    /\ function_name \in DOMAIN functions
    /\ IsAvailable(function_name, context)
    /\ call_count[function_name] < MaxCalls
    /\ \E built \in BuildOutcomes(function_name), d \in 0..MaxExec :
          LET result == CallBody(functions[function_name], built.value)
              response == [result |-> result, execution_time |-> d, success |-> TRUE]
              validated == model_dump(schemas[function_name], built.value)
          IN /\ built.ok
             /\ now + d <= MaxTime
             /\ results_cache' = Put(results_cache,
                                     cache_key(function_name, validated), response)
             /\ now' = now + d
             /\ ret' = [NoRet EXCEPT !.op = "dispatch", !.name = function_name,
                                     !.ctx = context, !.success = TRUE,
                                     !.result = result, !.execution_time = d,
                                     !.executed = TRUE, !.keys = SuccessKeys,
                                     !.value = built.value,
                                     !.decode_failed = built.decode_failed]
    /\ last_called' = LoggedLastCalled(function_name, now)
    /\ call_count' = LoggedCallCount(function_name)
    /\ UNCHANGED <<tracker, threads, functions, schemas, order, descriptions>>

\* execute_function_call({"name": function_name, "arguments": ...}, context)
Dispatch(function_name, context) ==
    \/ DispatchUnknown(function_name, context)
    \/ DispatchNotAvailable(function_name, context)
    \/ DispatchInvalid(function_name, context)
    \/ DispatchRaises(function_name, context)
    \/ DispatchSuccess(function_name, context)

(***************************************************************************)
(* OpenAIAdapter.chat_completion_with_functions of src/llm_adapters.py on  *)
(* the module's SmartCaller.  The provider's answers carry no tool call.   *)
(***************************************************************************)
\* stop_after_attempt(3)
MaxAttempts == 3
\* What client.chat.completions.create does on each call it may get: it
\* returns a completion, or raises because the provider cannot be reached.
Transports == [1..MaxAttempts -> {"ok", "down"}]

ErrTransport == "Error: Connection error."
Completion == "hello"

\* lines 33-48, one run of the function body: the try block returns the
\* processed completion, the except clause the error text.
chat_completion_body(answer) ==
    IF answer = "down"
    THEN [raised |-> FALSE, content |-> ErrTransport, degraded |-> TRUE]
    ELSE [raised |-> FALSE, content |-> Completion, degraded |-> FALSE]

\* @retry: the body is run again while it raises, MaxAttempts times at
\* most; then RetryError is raised.
RECURSIVE retry(_, _)
retry(transport, attempt) ==
    LET outcome == chat_completion_body(transport[attempt])
    IN IF outcome.raised /\ attempt < MaxAttempts
       THEN retry(transport, attempt + 1)
       ELSE [attempts |-> attempt, raised |-> outcome.raised,
             content |-> outcome.content, degraded |-> outcome.degraded]

\* adapter.chat_completion_with_functions(messages, context)
ChatCompletion(context, transport) ==
    LET returned == retry(transport, 1)
    IN /\ descriptions' = [filled |-> TRUE, value |-> get_function_descriptions]
       /\ ret' = [NoRet EXCEPT !.op = IF returned.raised THEN "exception" ELSE "chat",
                               !.ctx = context, !.args = transport,
                               !.attempts = returned.attempts,
                               !.success = ~returned.degraded,
                               !.error = IF returned.degraded THEN returned.content ELSE "",
                               !.result = IF returned.degraded THEN NoneV
                                          ELSE StrV(returned.content),
                               !.descs = prepare_for_llm(context)]
       /\ UNCHANGED <<tracker, threads, functions, schemas, order, last_called, call_count,
                      results_cache, now>>

(***************************************************************************)
(* execute_function_call run by several threads on one SmartCaller.  No    *)
(* lock is taken anywhere in the module, so another thread may run between *)
(* any two of the steps below.  The request carries no arguments.          *)
(***************************************************************************)
\* lines 244-274: the lookup, the eligibility check and build_parameters.
ThreadCheck(t, function_name, context) ==
    /\ threads[t].pc = "idle"
    /\ threads[t].logged < MaxCalls
    /\ IF function_name \notin DOMAIN functions
       THEN /\ ret' = Failure(function_name, context, ErrUnknown, FALSE)
            /\ UNCHANGED threads
       ELSE IF ~IsAvailable(function_name, context)
       THEN /\ ret' = Failure(function_name, context, ErrNotAvailable, FALSE)
            /\ UNCHANGED threads
       ELSE LET built == validated_params(schemas[function_name], TextArgs("{}"))
            IN IF ~built.ok
               THEN /\ ret' = Failure(function_name, context, built.error, FALSE)
                    /\ UNCHANGED threads
               ELSE /\ ret' = NoRet
                    /\ threads' = [threads EXCEPT ![t].pc = "checked",
                                                  ![t].name = function_name]
    /\ UNCHANGED <<tracker, functions, schemas, order, last_called, call_count,
                   results_cache, descriptions, now>>

\* line 139: self._last_called[name] = time.time()
ThreadLogTime(t) ==
    /\ threads[t].pc = "checked"
    /\ last_called' = LoggedLastCalled(threads[t].name, now)
    /\ threads' = [threads EXCEPT ![t].pc = "stamped", ![t].stamp = now]
    /\ ret' = NoRet
    /\ UNCHANGED <<tracker, functions, schemas, order, call_count, results_cache,
                   descriptions, now>>

\* line 140, right-hand side: self._call_count.get(name, 0)
ThreadLogRead(t) ==
    /\ threads[t].pc = "stamped"
    /\ threads' = [threads EXCEPT
                      ![t].pc = "read",
                      ![t].count = IF threads[t].name \in DOMAIN call_count
                                   THEN call_count[threads[t].name] ELSE 0]
    /\ ret' = NoRet
    /\ UNCHANGED <<tracker, functions, schemas, order, last_called, call_count,
                   results_cache, descriptions, now>>

\* line 140, the store: self._call_count[name] = ... + 1
ThreadLogWrite(t) ==
    /\ threads[t].pc = "read"
    /\ call_count' = Put(call_count, threads[t].name, threads[t].count + 1)
    /\ threads' = [threads EXCEPT ![t].pc = "logged",
                                  ![t].logged = threads[t].logged + 1]
    /\ ret' = NoRet
    /\ UNCHANGED <<tracker, functions, schemas, order, last_called, results_cache,
                   descriptions, now>>

\* lines 280-281: start_time = time.time() and the callable is entered.
ThreadStart(t) ==
    /\ threads[t].pc = "logged"
    /\ threads' = [threads EXCEPT ![t].pc = "running", ![t].start_time = now]
    /\ ret' = NoRet
    /\ UNCHANGED <<tracker, functions, schemas, order, last_called, call_count,
                   results_cache, descriptions, now>>

\* lines 281-301: the callable returns or raises and the call ends.
ThreadReturn(t, raises) ==
    /\ threads[t].pc = "running"
    /\ LET function_name == threads[t].name
           built == validated_params(schemas[function_name], TextArgs("{}"))
           result == CallBody(functions[function_name], built.value)
           execution_time == now - threads[t].start_time
           response == [result |-> result, execution_time |-> execution_time,
                        success |-> TRUE]
           validated == model_dump(schemas[function_name], built.value)
       IN IF raises
          THEN /\ ret' = [Failure(function_name, {}, ErrRaised, TRUE)
                              EXCEPT !.value = built.value]
               /\ UNCHANGED results_cache
          ELSE /\ ret' = [NoRet EXCEPT !.op = "dispatch", !.name = function_name,
                                       !.success = TRUE, !.result = result,
                                       !.execution_time = execution_time,
                                       !.executed = TRUE, !.keys = SuccessKeys,
                                       !.value = built.value]
               /\ results_cache' = Put(results_cache,
                                       cache_key(function_name, validated), response)
    /\ threads' = [threads EXCEPT ![t] = [Idle EXCEPT !.logged = threads[t].logged]]
    /\ UNCHANGED <<tracker, functions, schemas, order, last_called, call_count,
                   descriptions, now>>

(***************************************************************************)
(* StateTracker of src/state_tracker.py.  A JSON text is modelled by the   *)
(* tree it denotes: json.dumps writes ints as numbers, strs as strings,    *)
(* None as null and lists and tuples alike as arrays; json.loads reads an  *)
(* array back as a list.                                                   *)
(***************************************************************************)
\* ttl: int = 3600
DefaultTtl == 3600
\* Entries added to the history before the model stops adding.
MaxHistory == 2

TupleV(xs) == [t |-> "tuple", i |-> 0, s |-> "", items |-> xs]

\* session_id= values passed to StateTracker: None (the default), the
\* empty str and a name.
SessionIds == {NoneV, StrV(""), StrV("s1")}
\* ttl= values passed to StateTracker.
Ttls == {DefaultTtl, 60}
\* f"session_{int(time.time())}": the str "session_" followed by the digits
\* of the time.
GeneratedSessionId(time) == [t |-> "str", i |-> time, s |-> "session_"]
\* bool(v) of a session id.
Truthy(v) == v.t # "none" /\ ~(v.t = "str" /\ v.s = "")

\* Keys and values the host stores, and the data of its history entries.
TrackerKeys == {"k", "m"}
TrackerValues == {IntV(3), ListV(<<StrV("x")>>), TupleV(<<IntV(3)>>)}
MergeData == UNION {[d -> TrackerValues] : d \in SUBSET TrackerKeys}
EntryTypes == {"call"}
EntryData == {("k" :> IntV(3)), ("k" :> TupleV(<<IntV(3)>>))}

\* StateTracker.__init__ run at the given time.
NewTracker(session_id, ttl, time) ==
    [exists |-> TRUE,
     session_id |-> IF Truthy(session_id) THEN session_id
                    ELSE GeneratedSessionId(time),
     ttl |-> ttl, created_at |-> time, last_updated |-> time,
     state |-> << >>, history |-> << >>]

MakeTracker(session_id, ttl) ==
    /\ ~tracker.exists
    /\ tracker' = NewTracker(session_id, ttl, now)
    /\ ret' = NoRet
    /\ UNCHANGED <<threads, functions, schemas, order, last_called, call_count,
                   results_cache, descriptions, now>>

\* tracker.update(key, value)
Update(key, value) ==
    /\ tracker.exists
    /\ tracker' = [tracker EXCEPT !.state = Put(tracker.state, key, value),
                                  !.last_updated = now]
    /\ ret' = NoRet
    /\ UNCHANGED <<threads, functions, schemas, order, last_called, call_count,
                   results_cache, descriptions, now>>

\* tracker.merge(data)
Merge(data) ==
    /\ tracker.exists
    /\ tracker' = [tracker EXCEPT
                      !.state = [k \in DOMAIN tracker.state \cup DOMAIN data |->
                                    IF k \in DOMAIN data THEN data[k]
                                    ELSE tracker.state[k]],
                      !.last_updated = now]
    /\ ret' = NoRet
    /\ UNCHANGED <<threads, functions, schemas, order, last_called, call_count,
                   results_cache, descriptions, now>>

\* tracker.clear()
Clear ==
    /\ tracker.exists
    /\ tracker' = [tracker EXCEPT !.state = << >>, !.last_updated = now]
    /\ ret' = NoRet
    /\ UNCHANGED <<threads, functions, schemas, order, last_called, call_count,
                   results_cache, descriptions, now>>

\* tracker.add_to_history(entry_type, data)
AddToHistory(entry_type, data) ==
    /\ tracker.exists
    /\ Len(tracker.history) < MaxHistory
    /\ tracker' = [tracker EXCEPT
                      !.history = Append(tracker.history,
                                         [type |-> entry_type, timestamp |-> now,
                                          data |-> data])]
    /\ ret' = NoRet
    /\ UNCHANGED <<threads, functions, schemas, order, last_called, call_count,
                   results_cache, descriptions, now>>

JNumber(n) == [j |-> "number", i |-> n, s |-> "", items |-> << >>]
JString(v) == [j |-> "string", i |-> v.i, s |-> v.s, items |-> << >>]
JNull == [j |-> "null", i |-> 0, s |-> "", items |-> << >>]
JArray(xs) == [j |-> "array", i |-> 0, s |-> "", items |-> xs]

\* json.dumps of one value.
RECURSIVE dumps(_)
dumps(v) ==
    CASE v.t = "int" -> JNumber(v.i)
      [] v.t = "str" -> JString(v)
      [] v.t \in {"list", "tuple"} ->
            JArray([k \in DOMAIN v.items |-> dumps(v.items[k])])
      [] OTHER -> JNull

\* json.loads of the text of one value.
RECURSIVE loads(_)
loads(text) ==
    CASE text.j = "number" -> IntV(text.i)
      [] text.j = "string" -> [t |-> "str", i |-> text.i, s |-> text.s]
      [] text.j = "array" ->
            ListV([k \in DOMAIN text.items |-> loads(text.items[k])])
      [] OTHER -> NoneV

\* tracker.to_json()
to_json(self) ==
    [session_id |-> dumps(self.session_id),
     created_at |-> JNumber(self.created_at),
     last_updated |-> JNumber(self.last_updated),
     state |-> [k \in DOMAIN self.state |-> dumps(self.state[k])],
     history |-> [n \in DOMAIN self.history |->
                     [type |-> dumps(StrV(self.history[n].type)),
                      timestamp |-> JNumber(self.history[n].timestamp),
                      data |-> [k \in DOMAIN self.history[n].data |->
                                   dumps(self.history[n].data[k])]]]]

\* data = json.loads(json_str)
loads_document(json_str) ==
    [session_id |-> loads(json_str.session_id),
     created_at |-> loads(json_str.created_at).i,
     last_updated |-> loads(json_str.last_updated).i,
     state |-> [k \in DOMAIN json_str.state |-> loads(json_str.state[k])],
     history |-> [n \in DOMAIN json_str.history |->
                     [type |-> loads(json_str.history[n].type).s,
                      timestamp |-> loads(json_str.history[n].timestamp).i,
                      data |-> [k \in DOMAIN json_str.history[n].data |->
                                   loads(json_str.history[n].data[k])]]]]

\* Mutant of from_json: the timestamps of the new tracker are left as
\* __init__ set them.
from_json_unstamped(json_str, time) ==
    LET data == loads_document(json_str)
    IN [NewTracker(data.session_id, DefaultTtl, time) EXCEPT
           !.state = data.state, !.history = data.history]

\* StateTracker.from_json(json_str) run at the given time.
from_json(json_str, time) ==
    LET data == loads_document(json_str)
    IN [NewTracker(data.session_id, DefaultTtl, time) EXCEPT
           !.created_at = data.created_at, !.last_updated = data.last_updated,
           !.state = data.state, !.history = data.history]

\* StateTracker.from_json(tracker.to_json())
RoundTrip ==
    /\ tracker.exists
    /\ ret' = [NoRet EXCEPT !.op = "from_json",
                            !.value = from_json(to_json(tracker), now)]
    /\ UNCHANGED <<tracker, threads, functions, schemas, order, last_called,
                   call_count, results_cache, descriptions, now>>

(***************************************************************************)
(* Specifications.  Each follows the operations its claims are about.      *)
(***************************************************************************)
\* cooldown= values that elapse within the time the model follows.
ShortCooldowns == {DefaultCooldown, 2}

\* The registry alone: register, schema changes, log_call and the clock.
NextRegistry ==
    \/ \E f \in Names, priority \in Priorities, cooldown \in Cooldowns :
          Register(f, priority, cooldown)
    \/ \E f \in Names, reqs \in SUBSET ContextKeys : SetContextRequirements(f, reqs)
    \/ \E name \in Names : LogCall(name)
    \/ Tick

SpecRegistry == Init /\ [][NextRegistry]_vars

\* Registration and prepare_for_llm.
NextPrepare ==
    \/ \E f \in Names, priority \in Priorities, cooldown \in ShortCooldowns :
          Register(f, priority, cooldown)
    \/ \E f \in Names, reqs \in SUBSET ContextKeys : SetContextRequirements(f, reqs)
    \/ \E context \in Contexts : Prepare(context)
    \/ \E name \in Names : LogCall(name)
    \/ Tick

SpecPrepare == Init /\ [][NextPrepare]_vars

\* Threads dispatching ping, which is registered, with either cooldown,
\* before the first of them calls.
NextThreads ==
    \/ \E cooldown \in ShortCooldowns :
          /\ \A t \in Threads : threads[t] = Idle
          /\ Register("ping", DefaultPriority, cooldown)
    \/ \E t \in Threads : ThreadCheck(t, "ping", {})
    \/ \E t \in Threads : ThreadLogTime(t)
    \/ \E t \in Threads : ThreadLogRead(t)
    \/ \E t \in Threads : ThreadLogWrite(t)
    \/ \E t \in Threads : ThreadStart(t)
    \/ \E t \in Threads, raises \in BOOLEAN : ThreadReturn(t, raises)
    \/ Tick

SpecThreads == Init /\ [][NextThreads]_vars

\* Registration with the defaults and build_parameters.
NextValidate ==
    \/ \E f \in ValidatedNames : Register(f, DefaultPriority, DefaultCooldown)
    \/ \E f \in ValidatedNames : \E params_data \in ValidateArguments(f) :
          Validate(f, params_data)
    \/ Revalidate

SpecValidate == Init /\ [][NextValidate]_vars

\* Registration and the adapter's chat completion.
NextAdapter ==
    \/ \E f \in Names, priority \in Priorities, cooldown \in ShortCooldowns :
          Register(f, priority, cooldown)
    \/ \E context \in Contexts, transport \in Transports :
          ChatCompletion(context, transport)
    \/ Tick

SpecAdapter == Init /\ [][NextAdapter]_vars

\* The StateTracker alone.
NextTracker ==
    \/ \E session_id \in SessionIds, ttl \in Ttls : MakeTracker(session_id, ttl)
    \/ Clear
    \/ \E key \in TrackerKeys, value \in TrackerValues : Update(key, value)
    \/ \E data \in MergeData : Merge(data)
    \/ \E entry_type \in EntryTypes, data \in EntryData :
          AddToHistory(entry_type, data)
    \/ RoundTrip
    \/ Tick

SpecTracker == Init /\ [][NextTracker]_vars

\* Registration and execute_function_call: add is registered with either
\* cooldown and may be given context requirements, ping with the defaults.
Next ==
    \/ \E cooldown \in ShortCooldowns : Register("add", DefaultPriority, cooldown)
    \/ Register("ping", DefaultPriority, DefaultCooldown)
    \/ \E reqs \in SUBSET ContextKeys : SetContextRequirements("add", reqs)
    \/ \E function_name \in Names \cup {UnknownName}, context \in Contexts :
          Dispatch(function_name, context)
    \/ Tick

Spec == Init /\ [][Next]_vars

(***************************************************************************)
(* Claims about filter_functions, checked under SpecRegistry.              *)
(***************************************************************************)
NamesOf(seq) == {seq[k] : k \in DOMAIN seq}

\* C1: in every reachable registry state and for every context,
\* filter_functions returns a duplicate-free sequence of registered names
\* whose priorities are non-increasing from first to last, and no name whose
\* schema has a context requirement absent from the context is in it.
C1_FilterSortedAndGated ==
    \A context \in Contexts :
        LET r == filter_functions(context, now)
        IN /\ \A i, j \in DOMAIN r : i # j => r[i] # r[j]
           /\ \A i \in DOMAIN r : r[i] \in DOMAIN schemas /\ r[i] \in DOMAIN functions
           /\ \A i \in DOMAIN r : i < Len(r) =>
                 schemas[r[i]].priority >= schemas[r[i + 1]].priority
           /\ \A i \in DOMAIN r : schemas[r[i]].context_requirements \subseteq context

\* Two callables registered lowest priority first come back highest priority
\* first, and one of them is left out of a context that lacks its requirement.
C1_Witness ==
    /\ Len(order) = 2
    /\ schemas[order[1]].priority < schemas[order[2]].priority
    /\ filter_functions(ContextKeys, now) = <<order[2], order[1]>>
    /\ \E name \in DOMAIN schemas :
          /\ schemas[name].context_requirements # {}
          /\ name \notin NamesOf(filter_functions({}, now))

\* C2: for a callable with cooldown c whose invocation was recorded at time
\* t, filter_functions at any time T with T - t < c does not contain it, and
\* at any time T with T - t >= c (context requirements met, no later
\* invocation) contains it again.
C2_CooldownGate ==
    \A name \in DOMAIN schemas \cap DOMAIN last_called :
        \A context \in Contexts, T \in last_called[name]..(MaxTime + 1) :
            LET c == schemas[name].cooldown
                t == last_called[name]
            IN /\ T - t < c => name \notin NamesOf(filter_functions(context, T))
               /\ (T - t >= c /\ schemas[name].context_requirements \subseteq context)
                     => name \in NamesOf(filter_functions(context, T))

\* A callable with a cooldown was invoked, was left out right then, and is
\* back now that exactly its cooldown has elapsed.
C2_Witness ==
    \E name \in DOMAIN schemas \cap DOMAIN last_called :
        /\ schemas[name].cooldown > 0
        /\ now - last_called[name] = schemas[name].cooldown
        /\ name \notin NamesOf(filter_functions(ContextKeys, last_called[name]))
        /\ name \in NamesOf(filter_functions(ContextKeys, now))

\* C3: a registered callable that has never been invoked is in
\* filter_functions whenever its context requirements are met, at every
\* clock value and for every cooldown, however large.
C3_NeverInvokedEligible ==
    \A name \in DOMAIN schemas \ DOMAIN last_called :
        \A context \in Contexts :
            schemas[name].context_requirements \subseteq context
                => name \in NamesOf(filter_functions(context, now))

(***************************************************************************)
(* Claims about prepare_for_llm, checked under SpecPrepare.                *)
(***************************************************************************)
\* The place of a name in a sequence that contains it.
Pos(seq, x) == CHOOSE k \in DOMAIN seq : seq[k] = x

\* C4: after any sequence of register, prepare_for_llm and other operations,
\* the set of callable names prepare_for_llm(context) describes equals the
\* set of names filter_functions(context) returns in the same state; a
\* callable registered after an earlier prepare_for_llm is offered by the
\* later ones whenever it is eligible.
C4_PrepareOffersEligible ==
    ret.op = "prepare" =>
        {ret.descs[k].name : k \in DOMAIN ret.descs} = NamesOf(ret.eligible)

\* C5: the schemas prepare_for_llm(context) returns are in the order of the
\* names filter_functions(context) returns, priority descending.
C5_PrepareInPriorityOrder ==
    ret.op = "prepare" =>
        \A i, j \in DOMAIN ret.descs :
            (/\ i < j
             /\ ret.descs[i].name \in NamesOf(ret.eligible)
             /\ ret.descs[j].name \in NamesOf(ret.eligible))
                => Pos(ret.eligible, ret.descs[i].name) < Pos(ret.eligible, ret.descs[j].name)

(***************************************************************************)
(* Claims about execute_function_call, checked under Spec.                 *)
(***************************************************************************)
ValidationErrors == {ErrMissing, ErrInvalid}

\* C6: a dispatch of a registered callable that is not in
\* filter_functions(context) for the state and time of the dispatch returns
\* the not-available failure, does not run the callable, and leaves the
\* last-call times, the call counters and the result cache as they were.
C6_NotEligibleRefused ==
    [][(/\ ret'.op = "dispatch"
        /\ ret'.name \in DOMAIN functions
        /\ ret'.name \notin NamesOf(filter_functions(ret'.ctx, now)))
          => (/\ ~ret'.success
              /\ ret'.error = ErrNotAvailable
              /\ ~ret'.executed
              /\ UNCHANGED <<last_called, call_count, results_cache>>)]_vars

\* A callable whose context requirements are met is refused because it is
\* still within its cooldown.
C6_Witness ==
    /\ ret.op = "dispatch"
    /\ ret.error = ErrNotAvailable
    /\ ret.name \in DOMAIN last_called
    /\ schemas[ret.name].context_requirements \subseteq ret.ctx
    /\ now - last_called[ret.name] < schemas[ret.name].cooldown

\* C7: a dispatch that fails parameter validation (a required parameter is
\* missing or a value cannot be coerced) returns a failure carrying the
\* validation error, does not run the callable and records no invocation:
\* last-call times and call counters are the same after it as before.
C7_InvalidNotRecorded ==
    [][(ret'.op = "dispatch" /\ ret'.error \in ValidationErrors)
          => (/\ ~ret'.success
              /\ ~ret'.executed
              /\ UNCHANGED <<last_called, call_count, results_cache>>)]_vars

\* A callable that has been invoked before is dispatched with a value that
\* cannot be coerced.
C7_Witness ==
    /\ ret.op = "dispatch"
    /\ ret.error = ErrInvalid
    /\ ret.name \in DOMAIN last_called
    /\ call_count[ret.name] > 0

\* C8 as claimed: after a dispatch of an eligible callable with cooldown
\* c > 0 that fails parameter validation, the callable is left out of
\* filter_functions (the cooldown is consumed).
C8_CooldownConsumedByInvalid ==
    (/\ ret.op = "dispatch"
     /\ ret.error \in ValidationErrors
     /\ schemas[ret.name].cooldown > 0)
        => ret.name \notin NamesOf(filter_functions(ret.ctx, now))

\* C8 as amended: the invocation is recorded after validation, so a dispatch
\* of an eligible callable with cooldown c > 0 that fails parameter
\* validation consumes no cooldown: the callable is in filter_functions for
\* the same context right after it and at every later time.
C8_CooldownKeptByInvalid ==
    (/\ ret.op = "dispatch"
     /\ ret.error \in ValidationErrors
     /\ schemas[ret.name].cooldown > 0)
        => \A T \in now..(MaxTime + 1) :
              ret.name \in NamesOf(filter_functions(ret.ctx, T))

\* A callable with a cooldown, never invoked, fails validation for a missing
\* parameter.
C8_Witness ==
    /\ ret.op = "dispatch"
    /\ ret.error = ErrMissing
    /\ schemas[ret.name].cooldown > 0
    /\ ret.name \notin DOMAIN last_called

\* The callable of the dispatch that just ran is in no filter_functions
\* result from now until its cooldown has elapsed since its last call.
LeftOutWhileCooling ==
    \A T \in now..(MaxTime + 1) :
        T - last_called[ret.name] < schemas[ret.name].cooldown
            => ret.name \notin NamesOf(filter_functions(ret.ctx, T))

\* C9: every dispatch that reaches execution records the invocation exactly
\* once, before the callable runs and whether it returns or raises: the
\* last-call time becomes the time at which the call started, the call
\* counter grows by exactly 1 and no other callable's record changes; so the
\* callable is left out of filter_functions until its cooldown has elapsed.
C9_RecordedOncePerExecution ==
    [][(ret'.op = "dispatch" /\ ret'.executed)
          => (/\ last_called' = Put(last_called, ret'.name, now)
              /\ call_count' = Put(call_count, ret'.name, call_count[ret'.name] + 1)
              /\ LeftOutWhileCooling')]_vars

\* A callable with a cooldown raised after running for a while and is now
\* left out.
C9_Witness ==
    /\ ret.op = "dispatch"
    /\ ret.executed
    /\ ~ret.success
    /\ schemas[ret.name].cooldown > 0
    /\ now > last_called[ret.name]
    /\ ret.name \notin NamesOf(filter_functions(ret.ctx, now))

\* C10: an exception raised by the executed callable does not leave
\* execute_function_call: the call returns a failure carrying the
\* exception's message, and the result cache is as it was.
C10_RaiseBecomesFailure ==
    [][(ret'.executed /\ ~ret'.success)
          => (/\ ret'.op = "dispatch"
              /\ ret'.error = ErrRaised
              /\ UNCHANGED results_cache)]_vars

\* A callable whose earlier result is cached raises.
C10_Witness ==
    /\ ret.op = "dispatch"
    /\ ret.executed
    /\ ret.error = ErrRaised
    /\ \E key \in DOMAIN results_cache : key[1] = ret.name

(***************************************************************************)
(* Claims about the result cache, checked under Spec.                      *)
(***************************************************************************)
\* The orders in which a caller of get_cached_result may write the entries
\* of the validated parameters of the dispatch that just returned.
Orderings(schema, value) ==
    LET items == model_dump(schema, value)
    IN {[k \in DOMAIN items |-> items[p[k]]] : p \in Permutations(DOMAIN items)}

\* get_cached_result gives the response the dispatch that just returned gave.
CachedAsReturned ==
    \A params \in Orderings(schemas[ret.name], ret.value) :
        get_cached_result(ret.name, params) =
            [result |-> ret.result, execution_time |-> ret.execution_time,
             success |-> TRUE]

\* The cache key of the dispatch that just returned.
LastKey == cache_key(ret.name, model_dump(schemas[ret.name], ret.value))

\* C11: after a successful dispatch get_cached_result(name, p) returns that
\* response for the validated parameters p written in any order, and an
\* entry of the cache stays as it is until a successful dispatch with the
\* same key replaces it.
C11_CachedUntilOverwritten ==
    [][/\ (ret'.op = "dispatch" /\ ret'.success) => CachedAsReturned'
       /\ \A key \in DOMAIN results_cache :
             /\ key \in DOMAIN results_cache'
             /\ results_cache'[key] # results_cache[key] =>
                   (ret'.op = "dispatch" /\ ret'.success /\ key = LastKey')]_vars

\* A second recorded call of the two-parameter callable succeeds while the
\* response of another callable is cached.
C11_Witness ==
    /\ ret.op = "dispatch" /\ ret.success
    /\ Cardinality(DOMAIN ret.value) = 2
    /\ call_count[ret.name] = 2
    /\ Cardinality(DOMAIN results_cache) = 2

(***************************************************************************)
(* Claims about concurrent dispatch, checked under SpecThreads.            *)
(***************************************************************************)
Distance(x, y) == IF x >= y THEN x - y ELSE y - x

\* C12: two threads never both execute a callable with cooldown c > 0 less
\* than c apart, whether measured by the times they recorded (line 139) or
\* by the times they started the callable (line 280).
C12_CooldownHoldsAcrossThreads ==
    \A t1 \in Threads : \A t2 \in Threads \ {t1} :
        (/\ threads[t1].pc = "running" /\ threads[t2].pc = "running"
         /\ threads[t1].name = threads[t2].name
         /\ schemas[threads[t1].name].cooldown > 0)
        => \/ Distance(threads[t1].stamp, threads[t2].stamp)
                 >= schemas[threads[t1].name].cooldown
           \/ Distance(threads[t1].start_time, threads[t2].start_time)
                 >= schemas[threads[t1].name].cooldown

\* The log_call calls the threads have completed.
RECURSIVE LogCallsOf(_)
LogCallsOf(ts) ==
    IF ts = {} THEN 0
    ELSE LET t == CHOOSE x \in ts : TRUE
         IN threads[t].logged + LogCallsOf(ts \ {t})

\* C13: while no thread is inside log_call, the call counter of the
\* callable equals the number of log_call calls made since it was
\* registered.
C13_NoRecordLost ==
    ("ping" \in DOMAIN call_count
        /\ \A t \in Threads : threads[t].pc \notin {"stamped", "read"})
    => call_count["ping"] = LogCallsOf(Threads)

(***************************************************************************)
(* Claims about the registration record, checked under Spec.               *)
(***************************************************************************)
\* C14: no step removes a registered callable or its counter, and no step,
\* re-registration included, makes a call counter smaller.
C14_CounterNeverDecreases ==
    [][/\ DOMAIN functions \subseteq DOMAIN functions'
       /\ \A name \in DOMAIN call_count :
             /\ name \in DOMAIN call_count'
             /\ call_count'[name] >= call_count[name]]_vars

(***************************************************************************)
(* Claims about build_parameters, checked under SpecValidate.              *)
(***************************************************************************)
\* C15: build_parameters applied to a mapping it returned succeeds and
\* returns that mapping unchanged.
C15_ValidateIdempotent ==
    ret.op = "revalidate" => (ret.success /\ ret.value = ret.args)

\* C16: when build_parameters succeeds, the value of every array-of-X
\* parameter that was supplied is a sequence whose elements are those
\* supplied, each coerced to X; so a value that is no sequence or has an
\* element that cannot be coerced is refused.
C16_ArrayElementsCoerced ==
    (ret.op = "validate" /\ ret.success) =>
        \A k \in DOMAIN schemas[ret.name].parameters :
            LET prop == schemas[ret.name].parameters[k]
                item_type == json_type_to_python(prop.items)
            IN (prop.type = "array" /\ prop.items # "" /\ prop.name \in DOMAIN ret.args) =>
                  LET supplied == ret.args[prop.name]
                  IN /\ supplied.t = "list"
                     /\ \A j \in DOMAIN supplied.items :
                           Coerce(item_type, supplied.items[j]).ok
                     /\ ret.value[prop.name] =
                           ListV([j \in DOMAIN supplied.items |->
                                     Coerce(item_type, supplied.items[j]).value])

(***************************************************************************)
(* Claims about the adapter, checked under SpecAdapter.                    *)
(***************************************************************************)
\* C17: no transport failure leaves the adapter as an exception; when the
\* first call to the provider fails a second one is made; and the error
\* text is returned only after MaxAttempts calls have failed.
C17_TransportFailureRetried ==
    /\ ret.op # "exception"
    /\ ret.op = "chat" =>
          /\ ret.attempts <= MaxAttempts
          /\ ret.args[1] = "down" => ret.attempts > 1
          /\ ~ret.success => ret.attempts = MaxAttempts

(***************************************************************************)
(* Claims about the outcomes of execute_function_call, checked under Spec. *)
(***************************************************************************)
\* C18: a dispatch whose arguments text does not decode goes as a
\* dispatch of the same name with the empty mapping goes: refused when the
\* name is unknown or not available, refused with build_parameters' error
\* for the empty mapping when it has one, and otherwise recorded and
\* executed with the parameters build_parameters makes of the empty mapping.
C18_UndecodableAsEmpty ==
    [][(ret'.op = "dispatch" /\ ret'.decode_failed) =>
          IF ret'.name \notin DOMAIN functions
          THEN /\ ret'.error = ErrUnknown
               /\ UNCHANGED <<last_called, call_count, results_cache, now>>
          ELSE IF ~IsAvailable(ret'.name, ret'.ctx)
          THEN /\ ret'.error = ErrNotAvailable
               /\ UNCHANGED <<last_called, call_count, results_cache, now>>
          ELSE LET built == build_parameters(ret'.name, << >>)
                   validated == model_dump(schemas[ret'.name], built.value)
               IN IF ~built.ok
                  THEN /\ ret'.error = built.error
                       /\ ~ret'.executed
                       /\ UNCHANGED <<last_called, call_count, results_cache, now>>
                  ELSE /\ ret'.executed
                       /\ ret'.value = built.value
                       /\ last_called' = LoggedLastCalled(ret'.name, now)
                       /\ call_count' = LoggedCallCount(ret'.name)
                       /\ IF ret'.success
                          THEN /\ ret'.result = CallBody(functions[ret'.name], built.value)
                               /\ results_cache' =
                                     Put(results_cache, cache_key(ret'.name, validated),
                                         [result |-> ret'.result,
                                          execution_time |-> ret'.execution_time,
                                          success |-> TRUE])
                          ELSE /\ ret'.error = ErrRaised
                               /\ UNCHANGED results_cache]_vars

\* A callable without parameters was executed on a request whose arguments
\* text does not decode.
C18_Witness ==
    /\ ret.op = "dispatch"
    /\ ret.decode_failed
    /\ ret.executed
    /\ ret.success
    /\ ret.value = << >>

\* C19: a dispatch of a name no callable is registered under returns the
\* unknown-function failure, executes nothing and changes nothing.
C19_UnknownRefused ==
    [][(ret'.op = "dispatch" /\ ret'.name \notin DOMAIN functions) =>
          /\ ret'.error = ErrUnknown
          /\ ~ret'.success
          /\ ~ret'.executed
          /\ UNCHANGED <<functions, schemas, order, last_called, call_count,
                         results_cache, descriptions, now>>]_vars

\* An unknown name was refused while the registry and the cache hold
\* entries of other callables.
C19_Witness ==
    /\ ret.op = "dispatch"
    /\ ret.error = ErrUnknown
    /\ ret.name \notin DOMAIN functions
    /\ DOMAIN call_count # {}
    /\ DOMAIN results_cache # {}

\* C20: what a dispatch returns carries a result with its execution time
\* or an error, exactly one of the two, and success says which; nothing
\* leaves execute_function_call as an exception.
C20_ExactlyOneOutcome ==
    /\ ret.op # "exception"
    /\ ret.op = "dispatch" =>
          LET has_result == {"result", "execution_time"} \subseteq ret.keys
              has_error == "error" \in ret.keys
          IN /\ has_result # has_error
             /\ "result" \in ret.keys <=> "execution_time" \in ret.keys
             /\ "success" \in ret.keys
             /\ ret.success <=> has_result
             /\ has_error => ret.error # ""

\* A dispatch that executed its callable returned a result after a run of
\* a second.
C20_Witness ==
    /\ ret.op = "dispatch"
    /\ ret.executed
    /\ ret.keys = SuccessKeys
    /\ ret.execution_time = MaxExec

(***************************************************************************)
(* Claims about the StateTracker, checked under SpecTracker.               *)
(***************************************************************************)
\* Two trackers agree on session id, timestamps, state and history.
SameContents(a, b) ==
    /\ a.session_id = b.session_id
    /\ a.created_at = b.created_at
    /\ a.last_updated = b.last_updated
    /\ a.state = b.state
    /\ a.history = b.history

\* C21 as claimed: from_json(to_json(t)) agrees with t on session id,
\* timestamps, state and history, whatever update, merge and
\* add_to_history have stored.
C21_RoundTripIdentical ==
    ret.op = "from_json" => SameContents(ret.value, tracker)

\* A value JSON has a form of its own for: an int, a str, None, or a list
\* of such values.
RECURSIVE JsonValue(_)
JsonValue(v) ==
    \/ v.t \in {"int", "str", "none"}
    \/ v.t = "list" /\ \A k \in DOMAIN v.items : JsonValue(v.items[k])

JsonContents(self) ==
    /\ \A k \in DOMAIN self.state : JsonValue(self.state[k])
    /\ \A n \in DOMAIN self.history :
          \A k \in DOMAIN self.history[n].data : JsonValue(self.history[n].data[k])

\* C21 amended: when every stored value is a JSON value,
\* from_json(to_json(t)) agrees with t on session id, timestamps, state
\* and history.
C21_RoundTripOfJsonValues ==
    (ret.op = "from_json" /\ JsonContents(tracker)) =>
        SameContents(ret.value, tracker)

\* A tracker with a generated session id, a list in its state and a full
\* history was updated after it was made and restored later still.
C21_Witness ==
    /\ ret.op = "from_json"
    /\ JsonContents(tracker)
    /\ tracker.session_id = GeneratedSessionId(tracker.created_at)
    /\ \E k \in DOMAIN tracker.state : tracker.state[k].t = "list"
    /\ Len(tracker.history) = MaxHistory
    /\ tracker.created_at < tracker.last_updated
    /\ tracker.last_updated < now

(***************************************************************************)
(* The result cache over register and dispatch, checked under Spec.        *)
(***************************************************************************)
\* Every cached response is a success and is filed under a registered name.
CacheOfSuccesses ==
    \A key \in DOMAIN results_cache :
        /\ results_cache[key].success
        /\ key[1] \in DOMAIN functions

\* The entries of the cache that a step wrote: new keys and changed values.
Written ==
    {key \in DOMAIN results_cache' :
        key \notin DOMAIN results_cache \/ results_cache'[key] # results_cache[key]}

\* C22: over any sequence of register and dispatch operations every cache
\* entry is a success response filed under a registered callable; an entry
\* is written only by a dispatch that ran the callable to completion and
\* returned that response; no entry is ever removed; and a dispatch that
\* ends in failure (unknown, not eligible, invalid parameters, execution
\* error) leaves the cache as it was.
C22_CacheHoldsCompletedSuccesses ==
    [][/\ CacheOfSuccesses'
       /\ DOMAIN results_cache \subseteq DOMAIN results_cache'
       /\ \A key \in Written :
             /\ ret'.op = "dispatch" /\ ret'.success /\ ret'.executed
             /\ key[1] = ret'.name
             /\ results_cache'[key] =
                   [result |-> ret'.result,
                    execution_time |-> ret'.execution_time, success |-> TRUE]
       /\ (ret'.op = "dispatch" /\ ~ret'.success) => UNCHANGED results_cache]_vars

\* A callable whose response is cached is refused as not eligible while the
\* cache also holds the response of another callable.
C22_Witness ==
    /\ ret.op = "dispatch"
    /\ ret.error = ErrNotAvailable
    /\ \E key \in DOMAIN results_cache : key[1] = ret.name
    /\ \E key \in DOMAIN results_cache : key[1] # ret.name

====
